---------------------------- MODULE Spec2Model ----------------------------
(***************************************************************************)
(* A model of the price pipeline of PythonProject_Invest_Dash: the loaders *)
(* (data.py load_price_data, main.py load_data, app.py load_data and its   *)
(* copies) and the analytics built on pandas (pct_change, dropna, rolling, *)
(* ewm, corr).                                                             *)
(*                                                                         *)
(* Floating-point values are modelled as exact rationals n/d; the missing  *)
(* value NaN is the record with d = 0.  Quotes are positive, so x/0 never  *)
(* arises in the operations modelled here.                                 *)
(***************************************************************************)
EXTENDS Integers, Sequences, FiniteSets, TLC

VARIABLES pc, tickers, raw, loader, df, diag, exc, out,
          new_ticker, tickers_list, msg

\* the state of the sidebar of app.py: the text of "Add a Custom Ticker",
\* st.session_state.tickers_list and the message of the last click
ui == <<new_ticker, tickers_list, msg>>

vars == <<pc, tickers, raw, loader, df, diag, exc, out, ui>>

---------------------------------------------------------------------------
(* Bounds of the model *)

\* the largest number of trading dates in a provider response
MaxRows == 3

\* the moving-average windows tried: 1 (the raw series), 2 and 3 (means of
\* several rows), 5 (longer than the series)
Windows == {1, 2, 3, 5}

\* the instruments a request of the two-instrument specification can name
Universe2 == {"AAPL", "MSFT"}

\* the instruments of the three-instrument (correlation) specification
Universe3 == {"AAPL", "MSFT", "TSLA"}

\* the quotes a cell can hold (besides NaN)
PriceInts == {1, 2}

\* the defaults of pct_change's fill_method among the pandas releases the
\* scripts run on: "pad" up to pandas 2.x, no filling from pandas 3.0
FillDefaults == {"pad", "none"}

---------------------------------------------------------------------------
(* Floating-point values as rationals, NaN as d = 0 *)

NaN == [n |-> 0, d |-> 0]

IsNaN(x) == x.d = 0

Abs(i) == IF i < 0 THEN -i ELSE i

RECURSIVE GCD(_, _)
GCD(a, b) == IF b = 0 THEN a ELSE GCD(b, a % b)

\* the rational n/d in lowest terms, d # 0
Q(n, d) ==
    LET s == IF d < 0 THEN -1 ELSE 1
        g == GCD(Abs(n), Abs(d))
    IN  [n |-> (s * n) \div g, d |-> (s * d) \div g]

Num(i) == [n |-> i, d |-> 1]

One == Num(1)

Zero == Num(0)

FAdd(x, y) == IF IsNaN(x) \/ IsNaN(y) THEN NaN
              ELSE Q(x.n * y.d + y.n * x.d, x.d * y.d)

FSub(x, y) == IF IsNaN(x) \/ IsNaN(y) THEN NaN
              ELSE Q(x.n * y.d - y.n * x.d, x.d * y.d)

FMul(x, y) == IF IsNaN(x) \/ IsNaN(y) THEN NaN
              ELSE Q(x.n * y.n, x.d * y.d)

\* 0/0 is NaN; x/0 with x # 0 does not arise (quotes are positive)
FDiv(x, y) == IF IsNaN(x) \/ IsNaN(y) \/ y.n = 0 THEN NaN
              ELSE Q(x.n * y.d, x.d * y.n)

Cells == {Num(i) : i \in PriceInts} \cup {NaN}

---------------------------------------------------------------------------
(* DataFrames: a set of columns and a sequence of dated rows *)

\* pd.DataFrame()
EmptyFrame == [cols |-> {}, rows |-> <<>>]

Frame(cols, rows) == [cols |-> cols, rows |-> rows]

\* DataFrame.empty: some axis has length 0
IsEmpty(t) == t.cols = {} \/ t.rows = <<>>

Dates(t) == {t.rows[i].date : i \in 1..Len(t.rows)}

\* the row of t at date d (d in Dates(t))
RowAt(t, d) == (CHOOSE i \in 1..Len(t.rows) : t.rows[i].date = d)

SomePresent(row, cols) == \E c \in cols : ~IsNaN(row.v[c])

AllPresent(row, cols) == \A c \in cols : ~IsNaN(row.v[c])

\* DataFrame.dropna(how='all'): drops the rows whose every value is NaN
dropna_all(t) ==
    Frame(t.cols, SelectSeq(t.rows, LAMBDA r : SomePresent(r, t.cols)))

\* DataFrame.dropna(): drops the rows holding any NaN
dropna(t) ==
    Frame(t.cols, SelectSeq(t.rows, LAMBDA r : AllPresent(r, t.cols)))

\* a price table a provider can answer a request for cols with: dates
\* 1..n, the cells of date i being f[i]
RawTable(cols, n, f) ==
    Frame(cols, [i \in 1..n |-> [date |-> i, v |-> f[i]]])

---------------------------------------------------------------------------
(* The provider's answer to yf.download *)

\* kind "error": yf.download raised.  Otherwise multi tells whether
\* data.columns is a MultiIndex, field whether the price field the loader
\* reads ("Close"/"Adj Close") is among the columns, px the prices.
ErrorResponse == [kind |-> "error", multi |-> FALSE, field |-> FALSE,
                  px |-> EmptyFrame]

DataResponse(multi, field, px) ==
    [kind |-> "data", multi |-> multi, field |-> field, px |-> px]

\* a request for several tickers is always answered with MultiIndex
\* columns; one for a single ticker with either kind
ColumnKinds(tks) == IF Cardinality(tks) = 1 THEN BOOLEAN ELSE {TRUE}

\* what a loader hands back: the frame, whether a diagnostic was printed,
\* whether an exception left the loader
Returned(t) == [df |-> t, diag |-> FALSE, exc |-> FALSE]

\* except Exception as e: print(...); return pd.DataFrame()
Caught == [df |-> EmptyFrame, diag |-> TRUE, exc |-> FALSE]

\* no handler: the exception reaches the caller
Raised == [df |-> EmptyFrame, diag |-> FALSE, exc |-> TRUE]

\* data.py: load_price_data
load_price_data(tks, r) ==
    IF r.kind = "error" THEN Caught
    \* data.columns.levels: an Index that is no MultiIndex has no levels
    ELSE IF ~r.multi THEN Caught
    ELSE IF ~r.field /\ Cardinality(tks) > 1 THEN Caught
    \* one ticker: data["Adj Close"] is a KeyError, or a DataFrame, which
    \* has no to_frame
    ELSE IF Cardinality(tks) = 1 THEN Caught
    \* df.dropna(how="all") is evaluated and its result dropped
    ELSE Returned(r.px)

\* main.py: load_data
load_data_main(tks, r) ==
    IF r.kind = "error" THEN Caught
    ELSE IF ~r.field THEN Caught
    ELSE Returned(dropna_all(r.px))

\* load_data with its last line returning df in place of
\* df.dropna(how='all')
load_data_app_nodrop(tks, r) ==
    IF r.kind = "error" THEN Raised
    ELSE IF ~r.multi THEN Raised
    ELSE IF ~r.field THEN Raised
    ELSE Returned(r.px)

\* app.py: load_data (main_new.py, main_dash.py, main_corr.py, main_plot.py
\* hold the same body)
load_data_app(tks, r) ==
    IF r.kind = "error" THEN Raised
    \* DataFrame has no to_frame
    ELSE IF ~r.multi THEN Raised
    ELSE IF ~r.field THEN Raised
    ELSE Returned(dropna_all(r.px))

---------------------------------------------------------------------------
(* pandas operations on frames and columns *)

\* the column c of t as a sequence of values
Col(t, c) == [i \in 1..Len(t.rows) |-> t.rows[i].v[c]]

\* the frame with t's dates and columns whose column c is f[c]
WithCols(t, f) ==
    Frame(t.cols, [i \in 1..Len(t.rows) |->
                     [date |-> t.rows[i].date,
                      v |-> [c \in t.cols |-> f[c][i]]]])

\* Series.ffill(): a missing value takes the last value before it
RECURSIVE PadAt(_, _)
PadAt(s, i) ==
    IF ~IsNaN(s[i]) THEN s[i]
    ELSE IF i = 1 THEN NaN ELSE PadAt(s, i - 1)

Pad(s) == [i \in 1..Len(s) |-> PadAt(s, i)]

\* pct_change with the first row filled by 0 instead of NaN
pct_change_col_first0(s, fill) ==
    LET data == IF fill = "pad" THEN Pad(s) ELSE s
    IN  [i \in 1..Len(s) |->
           IF i = 1 THEN Zero ELSE FSub(FDiv(data[i], data[i - 1]), One)]

\* Series.pct_change(): data / data.shift(1) - 1, where data is the series
\* itself (fill_method None) or the series forward-filled ("pad")
pct_change_col(s, fill) ==
    LET data == IF fill = "pad" THEN Pad(s) ELSE s
    IN  [i \in 1..Len(s) |->
           IF i = 1 THEN NaN ELSE FSub(FDiv(data[i], data[i - 1]), One)]

\* DataFrame.pct_change()
pct_change(t, fill) ==
    WithCols(t, [c \in t.cols |-> pct_change_col(Col(t, c), fill)])

\* data.py: calculate_returns; the same expression is the first line of
\* plot_returns, plot_cumulative_returns and plot_correlation
calculate_returns(t, fill) == dropna(pct_change(t, fill))

\* the product of the values of s at lo..hi, a NaN passed over
RECURSIVE ProdPresent(_, _, _)
ProdPresent(s, lo, hi) ==
    IF hi < lo THEN One
    ELSE FMul(ProdPresent(s, lo, hi - 1),
              IF IsNaN(s[hi]) THEN One ELSE s[hi])

\* Series.cumprod() with its first value replaced by 1.0: the running
\* product of the values after the first
cumprod_col_from_one(s) ==
    [i \in 1..Len(s) |->
        IF IsNaN(s[i]) THEN NaN ELSE ProdPresent(s, 2, i)]

\* Series.cumprod(): at each row that holds a value, the product of the
\* values up to it (skipna: a NaN stays NaN and is passed over)
cumprod_col(s) ==
    [i \in 1..Len(s) |->
        IF IsNaN(s[i]) THEN NaN ELSE ProdPresent(s, 1, i)]

\* app.py: plot_cumulative_returns, the table it draws:
\* (1 + df.pct_change().dropna()).cumprod()
cumulative_returns(t, fill) ==
    LET returns == calculate_returns(t, fill)
    IN  WithCols(returns,
                 [c \in returns.cols |->
                    cumprod_col([i \in 1..Len(returns.rows) |->
                                   FAdd(One, Col(returns, c)[i])])])

\* df / df.iloc[0]
DivByFirstRow(t) ==
    Frame(t.cols, [i \in 1..Len(t.rows) |->
                     [date |-> t.rows[i].date,
                      v |-> [c \in t.cols |->
                               FDiv(t.rows[i].v[c], t.rows[1].v[c])]]])

\* what an engine hands back: a value, or an exception
Value(x) == [err |-> FALSE, val |-> x]

IndexError == [err |-> TRUE, val |-> EmptyFrame]

\* app.py, main_new.py: normalize_data
normalize_data_app(t) ==
    LET df_clean == dropna(t)
    IN  IF IsEmpty(df_clean) THEN Value(df_clean)
        ELSE Value(DivByFirstRow(df_clean))

\* main_corr.py, main_dash.py, main_plot.py: normalize_data; iloc[0] of a
\* frame without rows raises IndexError
normalize_data_corr(t) ==
    IF t.rows = <<>> THEN IndexError ELSE Value(DivByFirstRow(t))

RECURSIVE SumRange(_, _, _)
SumRange(s, lo, hi) ==
    IF lo > hi THEN Zero ELSE FAdd(s[lo], SumRange(s, lo + 1, hi))

\* rolling(window=w, min_periods=1).mean(): the mean of the values present
\* among the rows max(1, i-w+1)..i
rolling_mean_minp1(s, w) ==
    [i \in 1..Len(s) |->
       LET lo == IF i - w + 1 < 1 THEN 1 ELSE i - w + 1
           present == {j \in lo..i : ~IsNaN(s[j])}
       IN  IF present = {} THEN NaN
           ELSE FDiv(SumRange([j \in 1..Len(s) |->
                                 IF j \in present THEN s[j] ELSE Zero],
                              lo, i),
                     Num(Cardinality(present)))]

\* Series.rolling(window=w).mean(): min_periods is w, so the mean of rows
\* i-w+1..i needs w rows and no NaN among them
rolling_mean(s, w) ==
    [i \in 1..Len(s) |->
       IF i >= w /\ \A j \in (i - w + 1)..i : ~IsNaN(s[j])
       THEN FDiv(SumRange(s, i - w + 1, i), Num(w))
       ELSE NaN]

\* Series.rolling(w).std(): min_periods is w, so rows i-w+1..i must all
\* hold a value; the sample standard deviation (ddof = 1) divides by w - 1
\* and is NaN for w = 1.  The value kept is the variance, the square of the
\* standard deviation.
rolling_std(s, w) ==
    [i \in 1..Len(s) |->
       IF i >= w /\ w > 1 /\ \A j \in (i - w + 1)..i : ~IsNaN(s[j])
       THEN LET xs == [k \in 1..w |-> s[i - w + k]]
                sq == [k \in 1..w |-> FMul(xs[k], xs[k])]
            IN  FDiv(FSub(FMul(Num(w), SumRange(sq, 1, w)),
                          FMul(SumRange(xs, 1, w), SumRange(xs, 1, w))),
                     Num(w * (w - 1)))
       ELSE NaN]

\* app.py: plot_volatility, the table it draws:
\* df.pct_change().rolling(window).std()
volatility(t, window, fill) ==
    LET returns == pct_change(t, fill)
    IN  WithCols(returns,
                 [c \in returns.cols |->
                    rolling_std(Col(returns, c), window)])

\* the state of pandas' ewm loop (adjust=False, ignore_na=False) after row
\* i: the running average and the weight of the past
RECURSIVE EwmState(_, _, _)
EwmState(s, i, alpha) ==
    IF i = 1 THEN [weighted |-> s[1], old_wt |-> One]
    ELSE LET prev == EwmState(s, i - 1, alpha)
             cur == s[i]
             old_wt == FMul(prev.old_wt, FSub(One, alpha))
         IN  IF ~IsNaN(prev.weighted)
             THEN IF ~IsNaN(cur)
                  THEN [weighted |->
                          FDiv(FAdd(FMul(old_wt, prev.weighted),
                                    FMul(alpha, cur)),
                               FAdd(old_wt, alpha)),
                        old_wt |-> One]
                  ELSE [weighted |-> prev.weighted, old_wt |-> old_wt]
             ELSE IF ~IsNaN(cur)
                  THEN [weighted |-> cur, old_wt |-> prev.old_wt]
                  ELSE prev

\* ewm(com=w, adjust=False).mean(): alpha = 1 / (com + 1)
ewm_mean_com(s, w) ==
    [i \in 1..Len(s) |-> EwmState(s, i, Q(1, w + 1)).weighted]

\* Series.ewm(span=w, adjust=False).mean(): alpha = 2 / (span + 1)
ewm_mean(s, w) ==
    [i \in 1..Len(s) |-> EwmState(s, i, Q(2, w + 1)).weighted]

\* app.py: plot_moving_average, the ma of every column
moving_average(t, ma_type, window) ==
    WithCols(t, [c \in t.cols |->
                   IF ma_type = "SMA" THEN rolling_mean(Col(t, c), window)
                   ELSE ewm_mean(Col(t, c), window)])

RECURSIVE SumSeq(_)
SumSeq(s) == IF s = <<>> THEN Zero ELSE FAdd(Head(s), SumSeq(Tail(s)))

Times(xs, ys) == [i \in 1..Len(xs) |-> FMul(xs[i], ys[i])]

Sign(x) == IF x.n > 0 THEN 1 ELSE IF x.n < 0 THEN -1 ELSE 0

\* the slope of the regression of ys on xs in place of Pearson's r: the
\* covariance is divided by the variance of xs alone
Pearson_slope(xs, ys) ==
    LET n == Num(Len(xs))
        cov == FSub(FMul(n, SumSeq(Times(xs, ys))),
                    FMul(SumSeq(xs), SumSeq(ys)))
        vx == FSub(FMul(n, SumSeq(Times(xs, xs))),
                   FMul(SumSeq(xs), SumSeq(xs)))
    IN  IF Len(xs) < 1 \/ vx.n = 0 THEN NaN
        ELSE FMul(Num(Sign(cov)), FDiv(FMul(cov, cov), FMul(vx, vx)))

\* Pearson's r of the observations (xs[i], ys[i]), none of them NaN, as
\* pandas' nancorr computes it: NaN without observations or when a variance
\* is zero.  The value kept is sign(r) * r^2, a rational that determines r
\* (1 for r = 1.0, -1 for r = -1.0).
Pearson(xs, ys) ==
    LET n == Num(Len(xs))
        cov == FSub(FMul(n, SumSeq(Times(xs, ys))),
                    FMul(SumSeq(xs), SumSeq(ys)))
        vx == FSub(FMul(n, SumSeq(Times(xs, xs))),
                   FMul(SumSeq(xs), SumSeq(xs)))
        vy == FSub(FMul(n, SumSeq(Times(ys, ys))),
                   FMul(SumSeq(ys), SumSeq(ys)))
    IN  IF Len(xs) < 1 \/ vx.n = 0 \/ vy.n = 0 THEN NaN
        ELSE FMul(Num(Sign(cov)), FDiv(FMul(cov, cov), FMul(vx, vy)))

\* the rows of t on which both a and b hold a value
BothPresent(t, a, b) ==
    SelectSeq(t.rows, LAMBDA r : ~IsNaN(r.v[a]) /\ ~IsNaN(r.v[b]))

\* one cell of DataFrame.corr(): Pearson's r over the rows where both
\* columns hold a value
PairCorr(t, a, b) ==
    LET rs == BothPresent(t, a, b)
    IN  Pearson([i \in 1..Len(rs) |-> rs[i].v[a]],
                [i \in 1..Len(rs) |-> rs[i].v[b]])

\* DataFrame.corr()
corr(t) == [p \in t.cols \X t.cols |-> PairCorr(t, p[1], p[2])]

\* app.py, main_new.py, main_dash.py, main_corr.py, main_plot.py:
\* plot_correlation, the matrix it draws
plot_correlation(t, fill) == corr(calculate_returns(t, fill))

\* the columns cols of t
Project(t, cols) ==
    Frame(cols, [i \in 1..Len(t.rows) |->
                   [date |-> t.rows[i].date,
                    v |-> [c \in cols |-> t.rows[i].v[c]]]])

\* app.py: the main logic after load_data (main_new.py: update_all); the
\* charts are drawn only when some row holds every instrument
run_analysis(t, fill) ==
    IF IsEmpty(t) \/ IsEmpty(dropna(t))
    THEN [shown |-> FALSE, normalized |-> EmptyFrame, returns |-> EmptyFrame,
          correlation |-> << >>]
    ELSE [shown |-> TRUE,
          normalized |-> normalize_data_app(t).val,
          returns |-> calculate_returns(t, fill),
          correlation |-> plot_correlation(t, fill)]

---------------------------------------------------------------------------
(* The session ticker list of app.py: strings are sequences of characters *)

\* st.session_state.tickers_list as app.py initialises it
InitialTickers ==
    << <<"A", "A", "P", "L">>,
       <<"M", "S", "F", "T">>,
       <<"T", "S", "L", "A">>,
       <<"G", "O", "O", "G", "L">>,
       <<"A", "M", "Z", "N">>,
       <<"N", "F", "L", "X">>,
       <<"Q", "Q", "Q">>,
       <<"S", "P", "Y">>,
       <<"B", "T", "C", "-", "U", "S", "D">>,
       <<"E", "T", "H", "-", "U", "S", "D">>,
       <<"M", "E", "T", "A">>,
       <<"N", "V", "D", "A">>,
       <<"^", "G", "S", "P", "C">>,
       <<"^", "D", "J", "I">>,
       <<"^", "N", "D", "X">>,
       <<"^", "R", "U", "T">>,
       <<"^", "V", "I", "X">>,
       <<"B", "A">>,
       <<"D", "I", "S">>,
       <<"N", "V", "D", "A">>,
       <<"G", "S">>,
       <<"I", "N", "T", "C">>,
       <<"I", "B", "M">>,
       <<"S", "N", "A", "P">>,
       <<"T", "W", "T", "R">>,
       <<"S", "P", "Y">>,
       <<"I", "W", "M">>,
       <<"S", "P", "X">>,
       <<"X", "O", "M">>,
       <<"T", "S", "M">>,
       <<"P", "Y", "P", "L">>,
       <<"N", "F", "L", "X">>,
       <<"U", "B", "E", "R">>,
       <<"S", "Q">>,
       <<"B", "A", "B", "A">>,
       <<"T", "W", "L", "O">>,
       <<"M", "S">>,
       <<"G", "S">>,
       <<"B", "I", "D", "U">> >>

\* what can be typed into "Add a Custom Ticker": nothing, blanks, tickers
\* of the list in other cases and with blanks around them, new tickers
InputTexts ==
    { <<>>,
      <<" ", " ">>,
      <<"b", "a">>,
      <<" ", "B", "a", " ">>,
      <<"s", "p", "y">>,
      <<"a", "b">>,
      <<" ", "A", "B">>,
      <<"z", "m", " ">>,
      <<" ", "z", " ", "m", " ">> }

\* str.isspace of one character
IsSpace(c) == c \in {" ", "\t", "\n"}

\* str.lstrip()
RECURSIVE lstrip(_)
lstrip(s) ==
    IF s # <<>> /\ IsSpace(Head(s)) THEN lstrip(Tail(s)) ELSE s

\* str.rstrip()
RECURSIVE rstrip(_)
rstrip(s) ==
    IF s # <<>> /\ IsSpace(s[Len(s)])
    THEN rstrip(SubSeq(s, 1, Len(s) - 1)) ELSE s

\* str.lstrip() in place of str.strip(): blanks after the text are kept
strip_left_only(s) == lstrip(s)

\* str.strip()
strip(s) == rstrip(lstrip(s))

\* str.upper() of one character, for the letters that are typed
UpperChar(c) ==
    CASE c = "a" -> "A" [] c = "b" -> "B" [] c = "m" -> "M"
      [] c = "p" -> "P" [] c = "s" -> "S" [] c = "y" -> "Y"
      [] c = "z" -> "Z" [] OTHER -> c

\* str.upper()
upper(s) == [i \in 1..Len(s) |-> UpperChar(s[i])]

\* x in list
In(x, list) == \E i \in 1..Len(list) : list[i] = x

---------------------------------------------------------------------------
(* Actions *)

NoOut == [op |-> "none"]

Init ==
    /\ pc = "idle"
    /\ tickers = {}
    /\ raw = ErrorResponse
    /\ loader = "none"
    /\ df = EmptyFrame
    /\ diag = FALSE
    /\ exc = FALSE
    /\ out = NoOut
    /\ new_ticker = <<>>
    /\ tickers_list = InitialTickers
    /\ msg = "none"

\* yf.download(tickers, ...) answers: it raises, or returns a frame
\* without the price field (no price can be read from it), or returns
\* prices for up to MaxRows dates, every cell a quote or NaN
Download(universe) ==
    /\ pc = "idle"
    /\ \E tks \in (SUBSET universe) \ {{}} :
         /\ tickers' = tks
         /\ \/ raw' = ErrorResponse
            \/ \E m \in ColumnKinds(tks) :
                   raw' = DataResponse(m, FALSE, Frame(tks, <<>>))
            \/ \E m \in ColumnKinds(tks), n \in 0..MaxRows :
                   \E f \in [1..n -> [tks -> Cells]] :
                       raw' = DataResponse(m, TRUE, RawTable(tks, n, f))
    /\ pc' = "downloaded"
    /\ UNCHANGED <<loader, df, diag, exc, out, ui>>

Load(name, res) ==
    /\ pc = "downloaded"
    /\ loader' = name
    /\ df' = res.df
    /\ diag' = res.diag
    /\ exc' = res.exc
    /\ pc' = IF res.exc THEN "crashed" ELSE "loaded"
    /\ UNCHANGED <<tickers, raw, out, ui>>

LoadPriceData == Load("load_price_data", load_price_data(tickers, raw))

LoadDataMain == Load("load_data_main", load_data_main(tickers, raw))

LoadDataApp == Load("load_data_app", load_data_app(tickers, raw))

\* a call of an engine on the loaded table; out records the call and what
\* it handed back
Engine(op, ma_type, window, fill, res) ==
    /\ pc = "loaded"
    /\ out' = [op |-> op, ma_type |-> ma_type, window |-> window,
               fill |-> fill, err |-> res.err, val |-> res.val]
    /\ pc' = "done"
    /\ UNCHANGED <<tickers, raw, loader, df, diag, exc, ui>>

\* the engines of app.py and its copies run on what their own load_data
\* returned
AppEngine(op, ma_type, window, fill, res) ==
    /\ loader = "load_data_app"
    /\ Engine(op, ma_type, window, fill, res)

\* df.pct_change().dropna(): calculate_returns after load_price_data
\* (data.py), plot_returns after load_data (main.py, app.py and its copies)
CalculateReturns ==
    \E fill \in FillDefaults :
        Engine("returns", "", 0, fill, Value(calculate_returns(df, fill)))

PlotCumulativeReturns ==
    \E fill \in FillDefaults :
        AppEngine("cumulative_returns", "", 0, fill,
                  Value(cumulative_returns(df, fill)))

NormalizeDataApp ==
    AppEngine("normalize_data_app", "", 0, "", normalize_data_app(df))

NormalizeDataCorr ==
    AppEngine("normalize_data_corr", "", 0, "", normalize_data_corr(df))

PlotMovingAverage ==
    \E ma_type \in {"SMA", "EMA"}, window \in Windows :
        AppEngine("moving_average", ma_type, window, "",
                  Value(moving_average(df, ma_type, window)))

PlotVolatility ==
    \E window \in Windows, fill \in FillDefaults :
        AppEngine("volatility", "", window, fill,
                  Value(volatility(df, window, fill)))

PlotCorrelation ==
    \E fill \in FillDefaults :
        AppEngine("correlation", "", 0, fill,
                  Value(plot_correlation(df, fill)))

RunAnalysis ==
    \E fill \in FillDefaults :
        AppEngine("run_analysis", "", 0, fill,
                  Value(run_analysis(df, fill)))

\* the user edits the text input; the script reruns and shows no message
TypeTicker ==
    /\ \E text \in InputTexts : new_ticker' = text
    /\ msg' = "none"
    /\ UNCHANGED <<pc, tickers, raw, loader, df, diag, exc, out,
                   tickers_list>>

\* app.py: a click on "Add Ticker"
AddTicker ==
    /\ LET ticker == upper(strip(new_ticker))
       IN  IF ticker # <<>> /\ ~In(ticker, tickers_list)
           THEN /\ tickers_list' = Append(tickers_list, ticker)
                /\ msg' = "added"
           ELSE IF In(ticker, tickers_list)
           THEN /\ tickers_list' = tickers_list
                /\ msg' = "exists"
           ELSE /\ tickers_list' = tickers_list
                /\ msg' = "enter"
    /\ UNCHANGED <<pc, tickers, raw, loader, df, diag, exc, out,
                   new_ticker>>

Loaders ==
    \/ LoadPriceData
    \/ LoadDataMain
    \/ LoadDataApp

Engines ==
    \/ CalculateReturns
    \/ PlotCumulativeReturns
    \/ NormalizeDataApp
    \/ NormalizeDataCorr
    \/ PlotMovingAverage
    \/ PlotVolatility
    \/ PlotCorrelation
    \/ RunAnalysis

Next ==
    \/ Download(Universe2)
    \/ Loaders
    \/ Engines

\* main_corr.py: load_data, then plot_correlation
NextCorr ==
    \/ Download(Universe3)
    \/ LoadDataApp
    \/ PlotCorrelation

\* the sidebar: typing into the text input and clicking "Add Ticker"
NextUI ==
    \/ TypeTicker
    \/ AddTicker

Spec == Init /\ [][Next]_vars

\* requests over three instruments, loaded and correlated
SpecCorr == Init /\ [][NextCorr]_vars

\* sessions of typing and adding tickers
SpecUI == Init /\ [][NextUI]_vars


---------------------------------------------------------------------------
(* Claims *)

\* the cell of t at date d, column c
Cell(t, d, c) == t.rows[RowAt(t, d)].v[c]

\* C1: the table a loader returns holds no date row in which every
\* instrument is missing, and every raw row in which some instrument has a
\* price is kept with its cells unchanged (a gap stays a gap).
C1_NoAllMissingRowGapsKept ==
    (pc = "loaded" /\ ~diag) =>
        /\ \A i \in 1..Len(df.rows) : SomePresent(df.rows[i], df.cols)
        /\ \A i \in 1..Len(raw.px.rows) :
             SomePresent(raw.px.rows[i], raw.px.cols) =>
                 /\ raw.px.rows[i].date \in Dates(df)
                 /\ \A c \in df.cols :
                      Cell(df, raw.px.rows[i].date, c) = raw.px.rows[i].v[c]

\* C2: when the provider call fails or the price field is absent, every
\* loader returns an empty table with a diagnostic and raises nothing.
C2_FailureGivesEmptyTableAndDiagnostic ==
    (pc \in {"loaded", "crashed"} /\ (raw.kind = "error" \/ ~raw.field)) =>
        (~exc /\ IsEmpty(df) /\ diag)

\* C3: for a non-empty price table, normalize_data raises nothing and the
\* first row of its result is 1.0 in every instrument column, also when an
\* instrument has no price on the first date.
C3_FirstNormalizedRowIsOne ==
    (pc = "done" /\ out.op \in {"normalize_data_app", "normalize_data_corr"}
       /\ ~IsEmpty(df)) =>
        /\ ~out.err
        /\ out.val.rows # <<>> =>
             \A c \in out.val.cols : out.val.rows[1].v[c] = One

\* C4: given an empty price table (no rows, or none left after load_data
\* dropped the all-missing rows), no engine raises, and the engines that
\* return a table return an empty one.
C4_EmptyInEmptyOutNoError ==
    (pc = "done" /\ loader = "load_data_app" /\ IsEmpty(df)
       /\ out.op \in {"returns", "normalize_data_app", "normalize_data_corr",
                      "moving_average"}) =>
        (~out.err /\ IsEmpty(out.val))

\* the date of the row right before date d in t (d not the first date)
PrevDate(t, d) == t.rows[RowAt(t, d) - 1].date

\* C5: returns(table), for a table load_data returned, has a row for date t
\* exactly when t is not the first date and every instrument has a price at
\* t and at the row right before t, and the value is
\* price[t] / price[t-1] - 1 from that row.
C5_ReturnsFromAdjacentRows ==
    (pc = "done" /\ out.op = "returns" /\ loader = "load_data_app") =>
        /\ Dates(out.val) =
             {d \in Dates(df) :
                /\ RowAt(df, d) > 1
                /\ AllPresent(df.rows[RowAt(df, d)], df.cols)
                /\ AllPresent(df.rows[RowAt(df, d) - 1], df.cols)}
        /\ \A d \in Dates(out.val) : \A c \in df.cols :
             Cell(out.val, d, c) =
                 FSub(FDiv(Cell(df, d, c), Cell(df, PrevDate(df, d), c)), One)

\* C6 as stated: for every table, the empty one included,
\* len(returns(table)) = len(table) - k for some k >= 1.
C6_LenMinusKOriginal ==
    (pc = "done" /\ out.op = "returns") =>
        /\ Len(out.val.rows) >= 0
        /\ \E k \in 1..(Len(df.rows) + 1) :
             Len(out.val.rows) = Len(df.rows) - k

\* C6 amended: for a table with at least one row,
\* len(returns(table)) = len(table) - k for some k >= 1 and is not
\* negative; for a table without rows returns has no rows (k = 0).
C6_LenMinusK ==
    (pc = "done" /\ out.op = "returns") =>
        IF df.rows = <<>> THEN out.val.rows = <<>>
        ELSE \E k \in 1..Len(df.rows) :
                 Len(out.val.rows) = Len(df.rows) - k

\* returns of a three-row table with a gap: one row is left (k = 2)
C6_Witness ==
    /\ pc = "done" /\ out.op = "returns" /\ loader = "load_data_app"
    /\ Len(df.rows) = 3 /\ Len(out.val.rows) = 1

\* the columns of df that hold no price on any date
NoDataCols(t) == {c \in t.cols : \A i \in 1..Len(t.rows) : IsNaN(t.rows[i].v[c])}

\* C7: the analytics of the instruments that have a price are the same
\* whether or not the request also names an instrument without any price.
C7_NoDataInstrumentLeavesOthersAlone ==
    (pc = "done" /\ out.op = "run_analysis" /\ df.rows # <<>>
       /\ NoDataCols(df) # {} /\ NoDataCols(df) # df.cols) =>
        LET rest == df.cols \ NoDataCols(df)
            alone == run_analysis(Project(df, rest), out.fill)
        IN  /\ out.val.shown = alone.shown
            /\ Project(out.val.returns, rest) = alone.returns
            /\ Project(out.val.normalized, rest) = alone.normalized

\* the simple moving average drawn for column c
MA(c) == Col(out.val, c)

IsSMA == pc = "done" /\ out.op = "moving_average" /\ out.ma_type = "SMA"

IsEMA == pc = "done" /\ out.op = "moving_average" /\ out.ma_type = "EMA"

\* C8 as stated: the SMA with window w at row i is the mean of the w prices
\* at rows i-w+1..i and is undefined exactly at the first w-1 rows (on the
\* tables app.py's load_data returns).
C8_SmaOriginal ==
    IsSMA =>
        \A c \in df.cols : \A i \in 1..Len(df.rows) :
            /\ IsNaN(MA(c)[i]) <=> i <= out.window - 1
            /\ i >= out.window =>
                 FMul(MA(c)[i], Num(out.window)) =
                     SumRange(Col(df, c), i - out.window + 1, i)

\* C8 amended: the SMA with window w at row i is undefined exactly when
\* i < w or some price at rows i-w+1..i is missing (for a column without
\* gaps: exactly at the first w-1 rows); where defined it is the unweighted
\* mean of the w prices at rows i-w+1..i; w = 1 reproduces the raw series
\* and w greater than the series length gives an all-undefined series,
\* without any error.
C8_Sma ==
    IsSMA =>
        /\ ~out.err
        /\ Dates(out.val) = Dates(df) /\ Len(out.val.rows) = Len(df.rows)
        /\ \A c \in df.cols : \A i \in 1..Len(df.rows) :
             LET s == Col(df, c)
                 w == out.window
             IN  /\ IsNaN(MA(c)[i]) <=>
                        (i < w \/ \E j \in (i - w + 1)..i : IsNaN(s[j]))
                 /\ ~IsNaN(MA(c)[i]) =>
                        FMul(MA(c)[i], Num(w)) = SumRange(s, i - w + 1, i)
                 /\ (\A j \in 1..Len(s) : ~IsNaN(s[j])) =>
                        (IsNaN(MA(c)[i]) <=> i <= w - 1)
                 /\ w = 1 => MA(c)[i] = s[i]
                 /\ w > Len(s) => IsNaN(MA(c)[i])

\* an SMA of window 2 over three rows: defined at row 2, undefined at row 3
\* because the price of row 3 is missing
C8_Witness ==
    /\ IsSMA /\ out.window = 2 /\ Len(df.rows) = 3
    /\ \E c \in df.cols : ~IsNaN(MA(c)[2]) /\ IsNaN(MA(c)[3])

RECURSIVE FPow(_, _)
FPow(x, k) == IF k = 0 THEN One ELSE FMul(x, FPow(x, k - 1))

\* the smoothing factor of span w
Alpha(w) == Q(2, w + 1)

\* C9 as stated: the EMA is defined at every row, its first value is the
\* first price, and each later value is
\* alpha * price[t] + (1 - alpha) * ema[t-1], alpha = 2 / (w + 1) (on the
\* tables app.py's load_data returns).
C9_EmaOriginal ==
    IsEMA =>
        \A c \in df.cols : \A i \in 1..Len(df.rows) :
            LET s == Col(df, c)
                a == Alpha(out.window)
            IN  /\ ~IsNaN(MA(c)[i])
                /\ i = 1 => MA(c)[i] = s[1]
                /\ i > 1 => MA(c)[i] =
                       FAdd(FMul(a, s[i]), FMul(FSub(One, a), MA(c)[i - 1]))

\* the last row before i at which s holds a price (one exists)
LastPriced(s, i) ==
    CHOOSE l \in 1..(i - 1) :
        ~IsNaN(s[l]) /\ \A j \in (l + 1)..(i - 1) : IsNaN(s[j])

\* C9 amended: with alpha = 2 / (w + 1), for every w >= 1 and any series
\* length, the EMA of an instrument is undefined before its first priced
\* row and defined from it onward; at the first priced row it equals that
\* price; at a later row without a price it repeats ema[t-1]; at a later
\* priced row t whose last priced row before it is l it equals
\* (b * ema[t-1] + alpha * price[t]) / (b + alpha) with
\* b = (1 - alpha)^(t - l), which is
\* alpha * price[t] + (1 - alpha) * ema[t-1] when l = t - 1.  For a column
\* without gaps this is the claim as stated.
C9_Ema ==
    IsEMA =>
        /\ ~out.err
        /\ Dates(out.val) = Dates(df) /\ Len(out.val.rows) = Len(df.rows)
        /\ \A c \in df.cols : \A i \in 1..Len(df.rows) :
             LET s == Col(df, c)
                 a == Alpha(out.window)
                 seen == \E j \in 1..(i - 1) : ~IsNaN(s[j])
             IN  /\ IsNaN(MA(c)[i]) <=> (~seen /\ IsNaN(s[i]))
                 /\ (~seen /\ ~IsNaN(s[i])) => MA(c)[i] = s[i]
                 /\ (seen /\ IsNaN(s[i])) => MA(c)[i] = MA(c)[i - 1]
                 /\ (seen /\ ~IsNaN(s[i])) =>
                      LET b == FPow(FSub(One, a), i - LastPriced(s, i))
                      IN  MA(c)[i] =
                            FDiv(FAdd(FMul(b, MA(c)[i - 1]), FMul(a, s[i])),
                                 FAdd(b, a))
                 /\ (i > 1 /\ ~IsNaN(s[i]) /\ ~IsNaN(s[i - 1])) =>
                      MA(c)[i] = FAdd(FMul(a, s[i]),
                                      FMul(FSub(One, a), MA(c)[i - 1]))

\* an EMA of window 5 over three rows with a gap at row 2: all three values
\* defined, the first the first price, the third a new average
C9_Witness ==
    /\ IsEMA /\ out.window = 5 /\ Len(df.rows) = 3
    /\ \E c \in df.cols :
         /\ ~IsNaN(df.rows[1].v[c]) /\ IsNaN(df.rows[2].v[c])
         /\ ~IsNaN(df.rows[3].v[c])
         /\ MA(c)[1] = df.rows[1].v[c] /\ MA(c)[2] = MA(c)[1]
         /\ ~IsNaN(MA(c)[3]) /\ MA(c)[3] # MA(c)[2]

\* C10: each cell (a, b) of the correlation matrix is Pearson's r over
\* exactly the dates on which both a and b have a defined return, whatever
\* the other instruments hold on those dates (every instrument having a
\* price on some date).
C10_PairwiseCompleteCorrelation ==
    (pc = "done" /\ out.op = "correlation" /\ NoDataCols(df) = {}) =>
        \A a \in df.cols : \A b \in df.cols \ {a} :
            out.val[<<a, b>>] = PairCorr(pct_change(df, out.fill), a, b)

\* C11: for a request of one instrument that has at least one price, the
\* correlation matrix has the single cell (c, c) and that cell is 1.0, also
\* when the table has only one row; and the run of the whole analysis on
\* such a table gives no returns row, the normalized table [1.0] and the
\* same 1x1 matrix when the table has one row.
C11_SingleInstrumentCorrelationIsOne ==
    (pc = "done" /\ Cardinality(df.cols) = 1 /\ Len(df.rows) >= 1) =>
        \A c \in df.cols :
            /\ out.op = "correlation" =>
                   /\ DOMAIN out.val = {<<c, c>>}
                   /\ out.val[<<c, c>>] = One
            /\ (out.op = "run_analysis" /\ Len(df.rows) = 1) =>
                   /\ out.val.shown
                   /\ out.val.returns.rows = <<>>
                   /\ Col(out.val.normalized, c) = <<One>>
                   /\ out.val.correlation[<<c, c>>] = One

\* the values of s are not all the same: s has non-zero variance
HasVariance(s) == \E i \in 1..Len(s) : \E j \in 1..Len(s) : s[i] # s[j]

\* the returns table the matrix of the last call was computed from
ReturnsOfCall == calculate_returns(df, out.fill)

\* C12: the correlation matrix has one cell per ordered pair of instruments
\* of the table (square), cell (a, b) equals cell (b, a) for every pair, and
\* cell (a, a) is 1.0 for every instrument a whose series in the returns
\* table has non-zero variance.
C12_SquareSymmetricUnitDiagonal ==
    (pc = "done" /\ out.op = "correlation") =>
        /\ DOMAIN out.val = df.cols \X df.cols
        /\ \A a \in df.cols : \A b \in df.cols :
               out.val[<<a, b>>] = out.val[<<b, a>>]
        /\ \A a \in df.cols :
               HasVariance(Col(ReturnsOfCall, a)) => out.val[<<a, a>>] = One

\* a 2x2 matrix of two instruments whose returns vary, one not the mirror
\* image of the other, and are correlated with r = -1.0
C12_Witness ==
    /\ pc = "done" /\ out.op = "correlation"
    /\ \E a \in df.cols : \E b \in df.cols \ {a} :
         /\ HasVariance(Col(ReturnsOfCall, a))
         /\ HasVariance(Col(ReturnsOfCall, b))
         /\ out.val[<<a, a>>] = One /\ out.val[<<b, b>>] = One
         /\ \A i \in 1..Len(ReturnsOfCall.rows) :
                Col(ReturnsOfCall, a)[i] #
                    FSub(Zero, Col(ReturnsOfCall, b)[i])
         /\ out.val[<<a, b>>] = Num(-1)

\* the loader of the last load, run once more on a response whose price
\* table is the table it returned
LoadedAgain ==
    IF loader = "load_data_app"
    THEN load_data_app(tickers, DataResponse(raw.multi, raw.field, df))
    ELSE load_data_main(tickers, DataResponse(raw.multi, raw.field, df))

\* C13: the table load_data returned is a fixed point of its cleaning step:
\* dropping the all-missing date rows of it, or loading it once more, gives
\* the same dates, columns and values, and neither diagnostic nor
\* exception.
C13_CleaningIsIdempotent ==
    (pc = "loaded" /\ ~diag /\ loader \in {"load_data_app", "load_data_main"})
        => /\ dropna_all(df).cols = df.cols
           /\ Dates(dropna_all(df)) = Dates(df)
           /\ dropna_all(df).rows = df.rows
           /\ LoadedAgain = Returned(df)

\* load_data dropped an all-missing date row of the response and returned
\* a table that still holds a gap
C13_Witness ==
    /\ pc = "loaded" /\ ~diag /\ loader = "load_data_app"
    /\ Len(raw.px.rows) = 3 /\ Len(df.rows) = 2
    /\ \E i \in 1..Len(df.rows) : ~AllPresent(df.rows[i], df.cols)
    /\ LoadedAgain = Returned(df)

\* every instrument of t has a price on every date
NoGaps(t) == \A i \in 1..Len(t.rows) : AllPresent(t.rows[i], t.cols)

\* the cumulative returns drawn by the last call, column c
CR(c) == Col(out.val, c)

IsCumulative == pc = "done" /\ out.op = "cumulative_returns"

\* C14 as stated: on a table without gaps, the cumulative return at the
\* date of row i >= 2 is price[i] divided by the price of the second date.
C14_CumulativeOriginal ==
    (IsCumulative /\ NoGaps(df)) =>
        \A c \in df.cols : \A i \in 2..Len(df.rows) :
            /\ df.rows[i].date \in Dates(out.val)
            /\ Cell(out.val, df.rows[i].date, c) =
                   FDiv(df.rows[i].v[c], df.rows[2].v[c])

\* C14: the cumulative returns have the dates and columns of the returns
\* table, begin with 1 + return at its first row and are multiplied by
\* 1 + return at each later row; on a table without gaps the value at the
\* date of row i >= 2 is price[i] divided by the price of the FIRST date,
\* the growth since the base of the normalization.
C14_Cumulative ==
    IsCumulative =>
        /\ ~out.err
        /\ out.val.cols = ReturnsOfCall.cols
        /\ [i \in 1..Len(out.val.rows) |-> out.val.rows[i].date] =
               [i \in 1..Len(ReturnsOfCall.rows) |->
                    ReturnsOfCall.rows[i].date]
        /\ \A c \in df.cols : \A i \in 1..Len(out.val.rows) :
               CR(c)[i] = IF i = 1
                          THEN FAdd(One, Col(ReturnsOfCall, c)[1])
                          ELSE FMul(CR(c)[i - 1],
                                    FAdd(One, Col(ReturnsOfCall, c)[i]))
        /\ NoGaps(df) =>
               \A c \in df.cols : \A i \in 2..Len(df.rows) :
                   /\ df.rows[i].date \in Dates(out.val)
                   /\ Cell(out.val, df.rows[i].date, c) =
                          FDiv(df.rows[i].v[c], df.rows[1].v[c])

\* three dates without gaps, the price moving between the first and the
\* second date and again to the third: the cumulative returns differ from
\* the growth since the second date at both rows
C14_Witness ==
    /\ IsCumulative /\ NoGaps(df) /\ Len(df.rows) = 3
    /\ Len(out.val.rows) = 2
    /\ \E c \in df.cols :
         /\ df.rows[1].v[c] # df.rows[2].v[c]
         /\ df.rows[2].v[c] # df.rows[3].v[c]
         /\ CR(c)[1] = FDiv(df.rows[2].v[c], df.rows[1].v[c])
         /\ CR(c)[2] = FDiv(df.rows[3].v[c], df.rows[1].v[c])
         /\ CR(c)[2] # FDiv(df.rows[3].v[c], df.rows[2].v[c])

\* the volatility series drawn by the last call, column c
Vol(c) == Col(out.val, c)

\* C15: on a table without gaps and for a window w >= 2, exactly the first
\* w - 1 entries of each instrument's volatility series are undefined: the
\* w-th entry and every later one is defined.
C15_VolatilityLeadingRegion ==
    (pc = "done" /\ out.op = "volatility" /\ NoGaps(df) /\ out.window >= 2) =>
        \A c \in df.cols : \A i \in 1..Len(Vol(c)) :
            IsNaN(Vol(c)[i]) <=> i < out.window

\* the number of occurrences of x in list
Count(x, list) == Cardinality({i \in 1..Len(list) : list[i] = x})

\* text[lo..hi] is text without the blanks around it: only blanks lie
\* before lo and after hi, and the part neither begins nor ends with one
IsStripped(text, lo, hi) ==
    /\ \A i \in 1..(lo - 1) : IsSpace(text[i])
    /\ \A i \in (hi + 1)..Len(text) : IsSpace(text[i])
    /\ lo <= hi => (~IsSpace(text[lo]) /\ ~IsSpace(text[hi]))

\* what a step does to the session ticker list
C16_Step ==
    /\ Len(tickers_list') >= Len(tickers_list)
    /\ SubSeq(tickers_list', 1, Len(tickers_list)) = tickers_list
    /\ \A i \in 1..Len(tickers_list) :
           Count(tickers_list[i], tickers_list') =
               Count(tickers_list[i], tickers_list)
    /\ msg' # "none" =>
           \E lo \in 1..(Len(new_ticker) + 1) : \E hi \in 0..Len(new_ticker) :
               /\ IsStripped(new_ticker, lo, hi)
               /\ LET ticker == [i \in 1..(IF lo <= hi THEN hi - lo + 1 ELSE 0)
                                   |-> UpperChar(new_ticker[lo + i - 1])]
                  IN  IF ticker # <<>> /\ ~In(ticker, tickers_list)
                      THEN tickers_list' = Append(tickers_list, ticker)
                      ELSE tickers_list' = tickers_list

\* C16: every click on "Add Ticker" appends the stripped, upper-cased text
\* to the session ticker list exactly when it is non-empty and not in the
\* list, and leaves the list as it is otherwise; no step shortens the list,
\* reorders its entries or adds an occurrence of a ticker it holds.
C16_AddTicker == [][C16_Step]_vars

\* two tickers were added, the last one typed in lower case with blanks
\* around and inside it, and the list still holds its duplicate entries
C16_Witness ==
    /\ msg = "added"
    /\ Len(tickers_list) = Len(InitialTickers) + 2
    /\ new_ticker = <<" ", "z", " ", "m", " ">>
    /\ tickers_list[Len(tickers_list)] = <<"Z", " ", "M">>
    /\ Count(<<"S", "P", "Y">>, tickers_list) = 2

=============================================================================
